---- MODULE Spec2Model ----
(***************************************************************************)
(* State-machine model of robot_skills.arms.Arm (src/src/robot_skills/      *)
(* arms.py): the three action clients (gripper, grasp precompute, joint    *)
(* trajectory), the hardware-status callback, the occupancy property and   *)
(* the send* operations.                                                     *)
(*                                                                         *)
(* The action servers are outside the repository.  Each SimpleActionClient *)
(* is modelled by what the Arm can observe through its API: the status of  *)
(* the goal the client tracks (get_state), wait_for_result returning       *)
(* whether that goal is terminal, send_goal replacing the tracked goal,    *)
(* cancel_goal / cancel_all_goals taking an unfinished goal to PREEMPTED.  *)
(* Time is abstract: a blocked call may return at any moment; returning    *)
(* while the goal is not terminal is the expiry of the deadline.           *)
(***************************************************************************)
EXTENDS Integers, Sequences, FiniteSets, TLC

(***************************************************************************)
(* Bounds of the model.                                                    *)
(***************************************************************************)
MaxTimeout == 1
MaxCoord == 1
MaxOff == 1
MaxFrameLen == 3
MaxNameLen == 2
MaxDiags == 2
NumJoints == 2

(***************************************************************************)
(* Program constants.                                                      *)
(***************************************************************************)
OPERATIONAL_LEVEL == 2
MaxLevel == 4

VARIABLES
    robot_name,              \* self.robot_name, a string as a sequence of characters
    side,                    \* self.side
    offset,                  \* self.offset, the calibration offset
    _operational,            \* self._operational
    _occupied_by,            \* self._occupied_by
    _ac_joint_traj_present,  \* self._ac_joint_traj_present
    joint_server_up,         \* environment: the joint trajectory server is reachable
    ac,                      \* per action client, the status of the goal it tracks
    diag_msg,                \* the DiagnosticArray in flight on /amigo/hardware_status
    handover,                \* the handover in progress: toggle published, wait, reply
    pc,                      \* where the caller's thread is
    call,                    \* the operation in progress or just returned
    ret,                     \* what the last operation returned
    sent,                    \* goals handed to action clients by the current call
    markers,                 \* markers published by the current call
    log,                     \* log entries written by the current call
    head                     \* the Head object, its action client and its caller

vars == <<robot_name, side, offset, _operational, _occupied_by,
          _ac_joint_traj_present, joint_server_up, ac, diag_msg,
          handover, pc, call, ret, sent, markers, log, head>>

(***************************************************************************)
(* Values.                                                                 *)
(***************************************************************************)
None == "None"
Entities == {"coke"}
Sides == {"left", "right"}
Endpoints == {"gripper", "grasp_precompute", "joint_traj"}

\* actionlib GoalStatus as the client reports it; LOST is get_state() of a
\* client that tracks no goal.
TerminalStatuses == {"SUCCEEDED", "ABORTED", "REJECTED", "PREEMPTED"}
ActiveStatuses == {"PENDING", "ACTIVE"}
Statuses == {"LOST"} \cup ActiveStatuses \cup TerminalStatuses

\* A timeout argument: None is <<>>, the number n is <<n>>, rospy.Duration(n)
\* is <<"Duration", n>>.
TimeoutNone == <<>>
Secs(n) == <<n>>
Duration(n) == <<"Duration", n>>
IsNumber(t) == Len(t) = 1
IsDuration(t) == Len(t) = 2

(***************************************************************************)
(* Strings are sequences of characters.                                    *)
(***************************************************************************)
StringsOver(alphabet, n) == UNION {[1..k -> alphabet] : k \in 0..n}

\* Mutant of Find: sub is looked for at the start of s only.
FindAtStart(s, sub) ==
    IF Len(sub) <= Len(s) /\ SubSeq(s, 1, Len(sub)) = sub THEN 0 ELSE -1

\* Python's str.find: the lowest 0-based index at which sub occurs in s, or -1.
Find(s, sub) ==
    LET hits == {i \in 0..(Len(s) - Len(sub)) : SubSeq(s, i + 1, i + Len(sub)) = sub}
    IN  IF hits = {} THEN -1 ELSE CHOOSE i \in hits : \A j \in hits : i <= j

\* "/" + self.robot_name + frame_id
PrefixWithRobotName(name, frame_id) == <<"/">> \o name \o frame_id

\* The robot of the main specification and two frames it is given.
Amigo == <<"a">>
BaseLink == <<"/", "b">>
AmigoBaseLink == <<"/", "a", "/", "b">>

\* self.side + '_arm', a name kept as its two pieces.
ArmDiagName(s) == <<s, "_arm">>
DiagNames == {ArmDiagName(s) : s \in Sides} \cup {<<"head">>}
Levels == 0..MaxLevel
\* Sub-reports: an arm's at every level, another component's at level 0.
DiagnosticStatus ==
    {d \in [name : DiagNames, level : Levels] : Len(d.name) = 2 \/ d.level = 0}
DiagnosticArrays == UNION {[1..k -> DiagnosticStatus] : k \in 0..MaxDiags}
NoMsg == <<"no message">>

(***************************************************************************)
(* Poses, offsets and the grasp precompute goal.                           *)
(***************************************************************************)
Fields == {"x", "y", "z", "roll", "pitch", "yaw"}
FieldIndex == [f \in Fields |->
    CASE f = "x" -> 1 [] f = "y" -> 2 [] f = "z" -> 3
      [] f = "roll" -> 4 [] f = "pitch" -> 5 [] f = "yaw" -> 6]
ZeroPose == [f \in Fields |-> 0]
\* Poses: every field c, but for at most one field, which is c + d.
Poses ==
    {[f \in Fields |-> IF f = g THEN c + d ELSE c] :
        c \in 0..MaxCoord, d \in 0..MaxCoord, g \in Fields}
\* Calibration offsets whose six components all differ (k, 2k, ..., 6k).
OffsetOf(k) == [f \in Fields |-> k * FieldIndex[f]]
Offsets == {OffsetOf(k) : k \in (0 - MaxOff)..MaxOff}

\* GraspPrecomputeGoal(): every number 0, every string empty.
EmptyGraspPrecomputeGoal ==
    [goal |-> [frame_id |-> <<>>, pose |-> ZeroPose],
     delta |-> [frame_id |-> <<>>, pose |-> ZeroPose],
     PERFORM_PRE_GRASP |-> FALSE,
     FIRST_JOINT_POS_ONLY |-> FALSE,
     allowed_touch_objects |-> <<>>]

(***************************************************************************)
(* The SimpleActionClient API as the Arm uses it.                          *)
(***************************************************************************)
\* send_goal: the client tracks the new goal, not yet accepted by the server.
ClientSendGoal(a, e) == [a EXCEPT ![e] = "PENDING"]
\* cancel_goal: the tracked goal, when unfinished, ends PREEMPTED.
ClientCancelGoal(a, e) ==
    [a EXCEPT ![e] = IF @ \in ActiveStatuses THEN "PREEMPTED" ELSE @]
\* cancel_all_goals: every goal of this client's server is cancelled.
ClientCancelAllGoals(a, e) ==
    [a EXCEPT ![e] = IF @ \in ActiveStatuses THEN "PREEMPTED" ELSE @]
\* wait_for_result's return value when it returns now.
ClientDone(a, e) == a[e] \in TerminalStatuses
\* get_state
ClientGetState(a, e) == a[e]
\* goals of endpoint e that are neither finished nor cancelled
PendingGoals(a, e) == IF a[e] \in ActiveStatuses THEN 1 ELSE 0

(***************************************************************************)
(* The caller's thread.                                                    *)
(***************************************************************************)
Free == pc \in {"idle", "returned", "raised"}
NoCall == [op |-> "none", args |-> <<>>, pre |-> <<>>]
\* No handover is in progress: nothing published, no subscription, no reply.
NoReply == "none"
NoHandover == [pub |-> <<>>, sub |-> <<>>, elapsed |-> 0, msg |-> NoReply]
\* Entering an operation from the caller's thread.
Enter(op, args, pre) ==
    /\ Free
    /\ call' = [op |-> op, args |-> args, pre |-> pre]
    /\ handover' = NoHandover
\* Returning value v to the caller.
Return(v) ==
    /\ pc' = "returned"
    /\ ret' = v
\* Exception e leaves the operation and reaches the caller.
Raise(e) ==
    /\ pc' = "raised"
    /\ ret' = e
Bool(b) == IF b THEN "True" ELSE "False"

\* The robot's name, the arm's side and offset never change, and no
\* operation of the Arm touches the Head.
UnchangedConfig == UNCHANGED <<robot_name, side, offset, head>>

(***************************************************************************)
(* Construction: Head.__init__.  _goal is None, _at_setpoint is False, the *)
(* action client tracks no goal and the caller of the Head is idle.        *)
(***************************************************************************)
HeadInit ==
    [_goal |-> None, _at_setpoint |-> FALSE, tracked |-> "none",
     pc |-> "idle", timeout |-> 0, elapsed |-> 0, fresh |-> FALSE]

(***************************************************************************)
(* Construction: Arm.__init__.                                             *)
(***************************************************************************)
InitWith(names, sides, offsets, ups) ==
    /\ robot_name \in names
    /\ side \in sides
    /\ offset \in offsets
    /\ _occupied_by = None
    /\ _operational = TRUE
    /\ joint_server_up \in ups
    /\ _ac_joint_traj_present = joint_server_up
    /\ ac = [e \in Endpoints |-> "LOST"]
    /\ diag_msg = NoMsg
    /\ handover = NoHandover
    /\ head = HeadInit
    /\ pc = "idle"
    /\ call = NoCall
    /\ ret = None
    /\ sent = <<>>
    /\ markers = <<>>
    /\ log = <<>>

Init == InitWith({Amigo}, {"left"}, {OffsetOf(1)}, BOOLEAN)

(***************************************************************************)
(* Arm.cb_hardware_status                                                  *)
(***************************************************************************)
MatchingDiags(msg, s) ==
    LET IsArm(d) == d.name = ArmDiagName(s)
    IN  SelectSeq(msg, IsArm)

\* Mutant of LevelIsOperational: every level from 2 up counts as operational.
LevelAtLeastOperational(level) == level >= OPERATIONAL_LEVEL

LevelIsOperational(level) == IF level # OPERATIONAL_LEVEL THEN FALSE ELSE TRUE

\* Mutant of cb_hardware_status: an arm that is reported not operational
\* has its goals cancelled.
cb_hardware_status_cancelling(msg) ==
    LET diags == MatchingDiags(msg, side)
        operational == IF Len(diags) = 0 THEN _operational
                       ELSE IF Len(diags) # 1 THEN _operational
                       ELSE LevelIsOperational(diags[1].level)
    IN  /\ _operational' = operational
        /\ ac' = IF operational THEN ac
                 ELSE [e \in Endpoints |-> ClientCancelAllGoals(ac, e)[e]]
        /\ UNCHANGED <<_occupied_by, _ac_joint_traj_present, sent, markers, log>>

cb_hardware_status(msg) ==
    LET diags == MatchingDiags(msg, side)
    IN  /\ _operational' =
              IF Len(diags) = 0 THEN _operational
              ELSE IF Len(diags) # 1 THEN _operational
              ELSE LevelIsOperational(diags[1].level)
        /\ UNCHANGED <<_occupied_by, _ac_joint_traj_present, ac, sent, markers, log>>

(***************************************************************************)
(* Arm.occupied_by (setter)                                                *)
(***************************************************************************)
SetOccupiedBy ==
    \E value \in Entities \cup {None} :
        /\ Free
        /\ _occupied_by' = value
        /\ pc' = "idle"
        /\ call' = NoCall
        /\ handover' = NoHandover
        /\ ret' = None
        /\ sent' = <<>>
        /\ markers' = <<>>
        /\ log' = <<>>
        /\ UNCHANGED <<_operational, _ac_joint_traj_present, joint_server_up, ac, diag_msg>>
        /\ UnchangedConfig

(***************************************************************************)
(* Arm.send_gripper_goal                                                   *)
(***************************************************************************)
GripperStates == {"open", "close", "half"}
GripperTimeouts == {TimeoutNone} \cup {Secs(n) : n \in 0..MaxTimeout}

GripperDirection(state) == IF state = "open" THEN "OPEN" ELSE "CLOSE"
\* Mutant of GripperFireAndForget: the test of timeout == 0.0 is left out.
GripperFireAndForgetNoneOnly(timeout) == timeout = TimeoutNone

\* timeout == 0.0 or timeout is None
GripperFireAndForget(timeout) == timeout = Secs(0) \/ timeout = TimeoutNone
\* self._ac_gripper.get_state() == GoalStatus.SUCCEEDED
GripperSucceeded(status) == status = "SUCCEEDED"
\* Mutant of OccupancyAfterGripper: occupied_by is cleared for 'close' too.
OccupancyClearedAlways(state, occupied) == None

\* if state == 'open': self.occupied_by = None
OccupancyAfterGripper(state, occupied) == IF state = "open" THEN None ELSE occupied

\* Mutant of GripperStateKnown: the else branch that rejects is missing.
GripperStateAny(state) == TRUE

\* if state == 'open': ... elif state == 'close': ... else: return False
GripperStateKnown(state) == state = "open" \/ state = "close"

send_gripper_goal(state, timeout) ==
    /\ Enter("send_gripper_goal", <<state, timeout>>, <<_occupied_by>>)
    /\ markers' = <<>>
    /\ IF ~GripperStateKnown(state)
       THEN /\ log' = <<[level |-> "err", text |-> "State shoulde be open or close", args |-> <<state>>]>>
            /\ sent' = <<>>
            /\ Return("False")
            /\ UNCHANGED <<ac, _occupied_by>>
       ELSE /\ log' = <<>>
            /\ sent' = <<[ep |-> "gripper", goal |-> [direction |-> GripperDirection(state)]]>>
            /\ ac' = ClientSendGoal(ac, "gripper")
            /\ IF GripperFireAndForget(timeout)
               THEN /\ _occupied_by' = OccupancyAfterGripper(state, _occupied_by)
                    /\ Return("True")
               ELSE /\ pc' = "wait_gripper"
                    /\ ret' = None
                    /\ UNCHANGED _occupied_by
    /\ UNCHANGED <<_operational, _ac_joint_traj_present, joint_server_up, diag_msg>>
    /\ UnchangedConfig

SendGripperGoal ==
    \E state \in GripperStates, timeout \in GripperTimeouts :
        send_gripper_goal(state, timeout)

\* wait_for_result(rospy.Duration(timeout)) returns, then get_state() is read.
SendGripperGoalReturn ==
    /\ pc = "wait_gripper"
    /\ IF GripperSucceeded(ClientGetState(ac, "gripper"))
       THEN /\ _occupied_by' = OccupancyAfterGripper(call.args[1], _occupied_by)
            /\ Return("True")
       ELSE /\ UNCHANGED _occupied_by
            /\ Return("False")
    /\ UNCHANGED <<_operational, _ac_joint_traj_present, joint_server_up, ac, diag_msg, handover,
                   call, sent, markers, log>>
    /\ UnchangedConfig

(***************************************************************************)
(* Arm._publish_marker                                                     *)
(***************************************************************************)
_publish_marker(goal, color, ns) ==
    [frame_id |-> goal.goal.frame_id,
     x |-> goal.goal.pose["x"],
     y |-> goal.goal.pose["y"],
     z |-> goal.goal.pose["z"],
     ns |-> ns,
     color |-> <<color[1], color[2], color[3]>>]

(***************************************************************************)
(* Arm.send_goal                                                           *)
(***************************************************************************)
\* if frame_id.find(self.robot_name) < 0: frame_id = "/"+self.robot_name+frame_id
NormalizeFrame(name, frame_id) ==
    IF Find(frame_id, name) < 0 THEN PrefixWithRobotName(name, frame_id) ELSE frame_id

\* Mutant of AddOffset: the three orientation fields are left uncorrected.
AddPositionOffset(pose, off) ==
    [f \in Fields |-> IF f \in {"x", "y", "z"} THEN pose[f] + off[f] ELSE pose[f]]

\* goal.x += offset['x'] ... goal.yaw += offset['yaw']
AddOffset(pose, off) == [f \in Fields |-> pose[f] + off[f]]

\* The goal as it is when the first marker is published.
RequestedGoal(name, P, pre_grasp, frame_id, first_joint_pos_only, allowed_touch_objects) ==
    [EmptyGraspPrecomputeGoal EXCEPT
        !.goal.frame_id = NormalizeFrame(name, frame_id),
        !.PERFORM_PRE_GRASP = pre_grasp,
        !.FIRST_JOINT_POS_ONLY = first_joint_pos_only,
        !.allowed_touch_objects = allowed_touch_objects,
        !.goal.pose = P]

\* The goal after the tunable parameters are added.
CorrectedGoal(g, off) == [g EXCEPT !.goal.pose = AddOffset(@, off)]

\* Mutant of CartesianFireAndForget: a zero timeout waits like any other.
CartesianAlwaysWaits(timeout) == FALSE

\* timeout == 0.0
CartesianFireAndForget(timeout) == timeout = Secs(0)

\* Mutant of SubmitGraspPrecompute: an arm that is not operational refuses
\* the goal.
SubmitGraspPrecomputeIfOperational(g, timeout) ==
    IF _operational
    THEN /\ sent' = <<[ep |-> "grasp_precompute", goal |-> g]>>
         /\ ac' = ClientSendGoal(ac, "grasp_precompute")
         /\ IF CartesianFireAndForget(timeout)
            THEN Return("True")
            ELSE /\ pc' = "wait_grasp"
                 /\ ret' = None
    ELSE /\ sent' = <<>>
         /\ UNCHANGED ac
         /\ Return("False")

\* The part of send_goal and send_delta_goal after the goal is built.
SubmitGraspPrecompute(g, timeout) ==
    /\ sent' = <<[ep |-> "grasp_precompute", goal |-> g]>>
    /\ ac' = ClientSendGoal(ac, "grasp_precompute")
    /\ IF CartesianFireAndForget(timeout)
       THEN Return("True")
       ELSE /\ pc' = "wait_grasp"
            /\ ret' = None

send_goal(P, timeout, pre_grasp, frame_id, first_joint_pos_only, allowed_touch_objects) ==
    LET args == <<P, timeout, pre_grasp, frame_id, first_joint_pos_only, allowed_touch_objects>>
        g0 == RequestedGoal(robot_name, P, pre_grasp, frame_id, first_joint_pos_only,
                            allowed_touch_objects)
        g1 == CorrectedGoal(g0, offset)
    IN  /\ Enter("send_goal", args, <<>>)
        /\ log' = IF Find(frame_id, robot_name) < 0
                  THEN <<[level |-> "info", text |-> "Grasp precompute frame id",
                          args |-> <<g0.goal.frame_id>>]>>
                  ELSE <<>>
        /\ markers' = <<_publish_marker(g0, <<1, 0, 0>>, "grasp_point"),
                        _publish_marker(g1, <<0, 1, 0>>, "grasp_point_corrected")>>
        /\ SubmitGraspPrecompute(g1, timeout)
        /\ UNCHANGED <<_operational, _occupied_by, _ac_joint_traj_present, joint_server_up,
                       diag_msg>>
        /\ UnchangedConfig

(***************************************************************************)
(* Arm.send_delta_goal                                                     *)
(***************************************************************************)
DeltaGoal(P, pre_grasp, frame_id, use_offset, first_joint_pos_only) ==
    [EmptyGraspPrecomputeGoal EXCEPT
        !.delta.frame_id = frame_id,
        !.PERFORM_PRE_GRASP = pre_grasp,
        !.FIRST_JOINT_POS_ONLY = first_joint_pos_only,
        !.delta.pose = P]

send_delta_goal(P, timeout, pre_grasp, frame_id, use_offset, first_joint_pos_only) ==
    LET args == <<P, timeout, pre_grasp, frame_id, use_offset, first_joint_pos_only>>
        g == DeltaGoal(P, pre_grasp, frame_id, use_offset, first_joint_pos_only)
    IN  /\ Enter("send_delta_goal", args, <<>>)
        /\ log' = <<>>
        /\ markers' = <<_publish_marker(g, <<"r", "e", "d">>, "")>>
        /\ SubmitGraspPrecompute(g, timeout)
        /\ UNCHANGED <<_operational, _occupied_by, _ac_joint_traj_present, joint_server_up,
                       diag_msg>>
        /\ UnchangedConfig

\* Mutant of CartesianSucceeded: every finished goal counts as a success.
CartesianFinished(result) == result \in TerminalStatuses

\* result == GoalStatus.SUCCEEDED
CartesianSucceeded(result) == result = "SUCCEEDED"

\* Mutant of SendGoalAndWaitReturn: a goal that did not succeed is sent once
\* more before the call gives up.
SendGoalAndWaitRetries ==
    /\ pc = "wait_grasp"
    /\ LET a1 == IF ClientDone(ac, "grasp_precompute") THEN ac
                 ELSE ClientCancelGoal(ac, "grasp_precompute")
           result == ClientGetState(a1, "grasp_precompute")
       IN  IF CartesianSucceeded(result)
           THEN /\ ac' = a1
                /\ Return("True")
                /\ UNCHANGED <<log, sent>>
           ELSE IF Len(sent) < 2
           THEN /\ ac' = ClientSendGoal(a1, "grasp_precompute")
                /\ sent' = Append(sent, sent[1])
                /\ UNCHANGED <<log, pc, ret>>
           ELSE /\ ac' = a1
                /\ log' = Append(log, [level |-> "err",
                                       text |-> "grasp precompute goal failed",
                                       args |-> call.args])
                /\ Return("False")
                /\ UNCHANGED sent
    /\ UNCHANGED <<_operational, _occupied_by, _ac_joint_traj_present, joint_server_up,
                   diag_msg, handover, call, markers>>
    /\ UnchangedConfig

\* send_goal_and_wait returns: the goal is terminal, or the deadline passed
\* and send_goal_and_wait cancels the goal; its state is the result.
SendGoalAndWaitReturn ==
    /\ pc = "wait_grasp"
    /\ LET a1 == IF ClientDone(ac, "grasp_precompute") THEN ac
                 ELSE ClientCancelGoal(ac, "grasp_precompute")
           result == ClientGetState(a1, "grasp_precompute")
       IN  /\ ac' = a1
           /\ IF CartesianSucceeded(result)
              THEN /\ Return("True")
                   /\ UNCHANGED log
              ELSE /\ log' = Append(log, [level |-> "err",
                                          text |-> "grasp precompute goal failed",
                                          args |-> call.args])
                   /\ Return("False")
    /\ UNCHANGED <<_operational, _occupied_by, _ac_joint_traj_present, joint_server_up,
                   diag_msg, handover, call, sent, markers>>
    /\ UnchangedConfig

(***************************************************************************)
(* Arm._send_joint_trajectory and the operations built on it               *)
(***************************************************************************)
JointVector(n, v) == [i \in 1..n |-> v]
\* self.joint_names: one side-qualified name per joint
JointNames(s) == [i \in 1..NumJoints |-> <<i, "_", s>>]

\* skills/arm/default_configurations and skills/arm/default_trajectories
default_configurations ==
    [c \in {"reset", "short"} |->
        IF c = "reset" THEN JointVector(NumJoints, 0) ELSE JointVector(NumJoints - 1, 1)]
default_trajectories ==
    [c \in {"prepare", "long", "empty"} |->
        CASE c = "prepare" -> <<JointVector(NumJoints, 0), JointVector(NumJoints, 1)>>
          [] c = "long" -> <<JointVector(NumJoints, 1), JointVector(NumJoints + 1, 0)>>
          [] c = "empty" -> <<>>]
ConfigurationNames ==
    DOMAIN default_configurations \cup DOMAIN default_trajectories \cup {"unknown"}

DefaultJointTimeoutSecs == 5
DefaultJointTimeout == Duration(DefaultJointTimeoutSecs)

\* timeout != 0.0: a rospy.Duration never equals a number
JointWaits(timeout) == IF IsDuration(timeout) THEN TRUE ELSE timeout # Secs(0)

\* one warning per waypoint whose length differs from len(self.joint_names)
JointCountWarnings(joints_references) ==
    LET Mismatch(r) == Len(r) # NumJoints
        Warn(r) == [level |-> "warn", text |-> "Please use the correct number of joint references",
                    args |-> <<NumJoints, Len(joints_references)>>]
        bad == SelectSeq(joints_references, Mismatch)
    IN  [i \in 1..Len(bad) |-> Warn(bad[i])]

\* Mutant of TrajectoryPoints: waypoints of the wrong length are dropped.
ValidTrajectoryPoints(joints_references) ==
    LET Valid(r) == Len(r) = NumJoints
        good == SelectSeq(joints_references, Valid)
    IN  [i \in 1..Len(good) |-> [positions |-> good[i]]]

\* ps: one JointTrajectoryPoint per joints_reference
TrajectoryPoints(joints_references) ==
    [i \in 1..Len(joints_references) |-> [positions |-> joints_references[i]]]

FollowJointTrajectoryGoal(s, joints_references, timeout) ==
    [joint_names |-> JointNames(s),
     points |-> TrajectoryPoints(joints_references),
     goal_time_tolerance |-> timeout]

\* Mutant of ProbeJointServer: the server is probed on every call.
ProbeJointServerAlways(present, up) == up

\* if not self._ac_joint_traj_present: the recorded availability becomes the
\* outcome of wait_for_server; a client recorded present is not probed again.
ProbeJointServer(present, up) == IF ~present THEN up ELSE present

_send_joint_trajectory(op, args, joints_references, timeout) ==
    LET present == ProbeJointServer(_ac_joint_traj_present, joint_server_up)
    IN  /\ Enter(op, args, <<_ac_joint_traj_present, joint_server_up>>)
        /\ markers' = <<>>
        /\ _ac_joint_traj_present' = present
        /\ IF ~present
           THEN /\ log' = <<[level |-> "warn", text |-> "Joint trajectory action is not present",
                             args |-> <<>>]>>
                /\ sent' = <<>>
                /\ Return("False")
                /\ UNCHANGED ac
           ELSE /\ log' = JointCountWarnings(joints_references)
                /\ sent' = <<[ep |-> "joint_traj",
                              goal |-> FollowJointTrajectoryGoal(side, joints_references, timeout)]>>
                /\ ac' = ClientSendGoal(ac, "joint_traj")
                /\ IF JointWaits(timeout)
                   THEN /\ pc' = "wait_joint"
                        /\ ret' = None
                   ELSE \* return done, and done was never assigned
                        Raise("UnboundLocalError")
        /\ UNCHANGED <<_operational, _occupied_by, joint_server_up, diag_msg>>
        /\ UnchangedConfig

\* The name does not exist: a warning, and False.
UnknownConfiguration(op, configuration, text) ==
    /\ Enter(op, <<configuration>>, <<>>)
    /\ markers' = <<>>
    /\ sent' = <<>>
    /\ log' = <<[level |-> "warn", text |-> text, args |-> <<configuration>>]>>
    /\ Return("False")
    /\ UNCHANGED <<_operational, _occupied_by, _ac_joint_traj_present, joint_server_up,
                   ac, diag_msg>>
    /\ UnchangedConfig

send_joint_goal(op, configuration) ==
    IF configuration \in DOMAIN default_configurations
    THEN _send_joint_trajectory(op, <<configuration>>,
                                <<default_configurations[configuration]>>, DefaultJointTimeout)
    ELSE UnknownConfiguration(op, configuration, "Default configuration does not exist")

send_joint_trajectory(configuration) ==
    IF configuration \in DOMAIN default_trajectories
    THEN _send_joint_trajectory("send_joint_trajectory", <<configuration>>,
                                default_trajectories[configuration], DefaultJointTimeout)
    ELSE UnknownConfiguration("send_joint_trajectory", configuration,
                              "Default trajectories does not exist")

reset == send_joint_goal("reset", "reset")

\* wait_for_result(timeout*len(joints_references)) returns done; a zero
\* duration waits without a deadline.
JointWaitHasDeadline(goal) ==
    goal.goal_time_tolerance[2] * Len(goal.points) # 0

\* return done
JointResult(done) == done

SendJointTrajectoryReturn ==
    /\ pc = "wait_joint"
    /\ LET done == ClientDone(ac, "joint_traj")
       IN  /\ done \/ JointWaitHasDeadline(sent[1].goal)
           /\ log' = IF ~done
                     THEN Append(log, [level |-> "warn", text |-> "Cannot reach joint goal",
                                       args |-> <<sent[1].goal>>])
                     ELSE log
           /\ Return(Bool(JointResult(done)))
    /\ UNCHANGED <<_operational, _occupied_by, _ac_joint_traj_present, joint_server_up,
                   ac, diag_msg, handover, call, sent, markers>>
    /\ UnchangedConfig

(***************************************************************************)
(* Arm.close                                                               *)
(***************************************************************************)
\* Mutant of CancelAllOnClose: the joint trajectory client is forgotten.
CancelGripperAndGraspOnClose(a) ==
    ClientCancelAllGoals(ClientCancelAllGoals(a, "gripper"), "grasp_precompute")

CancelAllOnClose(a) ==
    ClientCancelAllGoals(
        ClientCancelAllGoals(
            ClientCancelAllGoals(a, "gripper"), "grasp_precompute"), "joint_traj")

\* The three cancel_all_goals calls run in this order, outside any try: the
\* first one that raises ends close, after the cancels before it.
NoFailure == "none"
CancelBeforeFailure(a, failing) ==
    IF failing = "gripper" THEN a
    ELSE IF failing = "grasp_precompute" THEN ClientCancelAllGoals(a, "gripper")
    ELSE IF failing = "joint_traj"
         THEN ClientCancelAllGoals(ClientCancelAllGoals(a, "gripper"), "grasp_precompute")
    ELSE CancelAllOnClose(a)

\* failing is the client whose cancel_all_goals raises (its publisher is
\* closed once rospy has shut down), or NoFailure.
close(failing) ==
    /\ Enter("close", <<>>, <<ac, failing>>)
    /\ log' = <<[level |-> "info", text |-> "arm cancelling all goals on all arm-related ACs on close",
                 args |-> <<side>>]>>
    /\ markers' = <<>>
    /\ sent' = <<>>
    /\ ac' = CancelBeforeFailure(ac, failing)
    /\ IF failing = NoFailure THEN Return(None) ELSE Raise("ROSException")
    /\ UNCHANGED <<_operational, _occupied_by, _ac_joint_traj_present, joint_server_up,
                   diag_msg>>
    /\ UnchangedConfig

(***************************************************************************)
(* Arm.handover_to_human and Arm.handover_to_robot                         *)
(* rospy.wait_for_message returns the first message that arrives on the    *)
(* topic while it waits, raises ROSException once the timeout has passed,  *)
(* and has no deadline when the timeout is None.  Time is counted in whole *)
(* seconds of the wait.                                                    *)
(***************************************************************************)
Directions == {"robot2human", "human2robot"}

\* '/'+self.robot_name+'/handoverdetector_'+self.side+'/'+leaf
HandoverTopic(name, s, leaf) ==
    <<"/">> \o name \o <<"/", "handoverdetector_", s, "/">> \o leaf

ToggleTopic(name, s, direction) == HandoverTopic(name, s, <<"toggle_", direction>>)
ResultTopic(name, s) == HandoverTopic(name, s, <<"result">>)

\* Mutant of WaitTopic: each direction waits on a result topic of its own.
WaitTopicPerDirection(name, s, direction) == HandoverTopic(name, s, <<"result_", direction>>)

\* The topic a handover waits on: '.../result' in handover_to_human and in
\* handover_to_robot alike.
WaitTopic(name, s, direction) == ResultTopic(name, s)

HandoverTimeouts == {TimeoutNone} \cup {Secs(n) : n \in 0..MaxTimeout}

\* pub.publish(std_msgs.msg.Bool(True)) on the latched toggle topic, then
\* rospy.wait_for_message on the result topic.
PublishToggleAndWait(op, direction, timeout) ==
    /\ Free
    /\ call' = [op |-> op, args |-> <<timeout>>, pre |-> <<>>]
    /\ handover' = [pub |-> <<[topic |-> ToggleTopic(robot_name, side, direction),
                               data |-> TRUE, latch |-> TRUE]>>,
                    sub |-> WaitTopic(robot_name, side, direction),
                    elapsed |-> 0,
                    msg |-> NoReply]
    /\ pc' = "wait_handover"
    /\ ret' = None
    /\ sent' = <<>>
    /\ markers' = <<>>
    /\ log' = <<>>
    /\ UNCHANGED <<_operational, _occupied_by, _ac_joint_traj_present, joint_server_up,
                   ac, diag_msg>>
    /\ UnchangedConfig

handover_to_human(timeout) == PublishToggleAndWait("handover_to_human", "robot2human", timeout)

handover_to_robot(timeout) == PublishToggleAndWait("handover_to_robot", "human2robot", timeout)

HandoverToHuman == \E timeout \in HandoverTimeouts : handover_to_human(timeout)

HandoverToRobot == \E timeout \in HandoverTimeouts : handover_to_robot(timeout)

\* Mutant of HandoverExpired: the wait gives up without waiting.
HandoverExpiredAtOnce(timeout, elapsed) == IsNumber(timeout)

\* wait_for_message raises once timeout seconds have passed; never for None.
HandoverExpired(timeout, elapsed) == IsNumber(timeout) /\ elapsed >= timeout[1]

\* One second of the wait passes while no reply has arrived.
HandoverTick ==
    /\ pc = "wait_handover"
    /\ handover.msg = NoReply
    /\ IsNumber(call.args[1])
    /\ handover.elapsed < call.args[1][1]
    /\ handover' = [handover EXCEPT !.elapsed = @ + 1]
    /\ UNCHANGED <<_operational, _occupied_by, _ac_joint_traj_present, joint_server_up,
                   ac, diag_msg, pc, call, ret, sent, markers, log>>
    /\ UnchangedConfig

\* A handover detector publishes its result for one direction; the waiting
\* call receives it if it is subscribed to that topic and still in time.
ResultMessage ==
    \E s \in Sides, direction \in Directions :
        /\ pc = "wait_handover"
        /\ handover.sub = ResultTopic(robot_name, s)
        /\ handover.msg = NoReply
        /\ ~HandoverExpired(call.args[1], handover.elapsed)
        /\ handover' = [handover EXCEPT !.msg = direction]
        /\ UNCHANGED <<_operational, _occupied_by, _ac_joint_traj_present, joint_server_up,
                       ac, diag_msg, pc, call, ret, sent, markers, log>>
        /\ UnchangedConfig

\* Mutant of HandoverReturn: a handover that got its reply empties the
\* gripper's record.
HandoverReturnReleases ==
    /\ pc = "wait_handover"
    /\ IF handover.msg # NoReply
       THEN /\ Return("True")
            /\ _occupied_by' = None
            /\ UNCHANGED log
       ELSE /\ HandoverExpired(call.args[1], handover.elapsed)
            /\ log' = Append(log, [level |-> "err",
                                   text |-> "timeout exceeded while waiting for message on topic",
                                   args |-> <<handover.sub>>])
            /\ Return("False")
            /\ UNCHANGED _occupied_by
    /\ UNCHANGED <<_operational, _ac_joint_traj_present, joint_server_up,
                   ac, diag_msg, handover, call, sent, markers>>
    /\ UnchangedConfig

\* return True after wait_for_message; except ROSException: logerr, return False
HandoverReturn ==
    /\ pc = "wait_handover"
    /\ IF handover.msg # NoReply
       THEN /\ Return("True")
            /\ UNCHANGED log
       ELSE /\ HandoverExpired(call.args[1], handover.elapsed)
            /\ log' = Append(log, [level |-> "err",
                                   text |-> "timeout exceeded while waiting for message on topic",
                                   args |-> <<handover.sub>>])
            /\ Return("False")
    /\ UNCHANGED <<_operational, _occupied_by, _ac_joint_traj_present, joint_server_up,
                   ac, diag_msg, handover, call, sent, markers>>
    /\ UnchangedConfig

(***************************************************************************)
(* The operations as the main specification calls them.                    *)
(***************************************************************************)
CartesianTimeouts == {Secs(n) : n \in 0..MaxTimeout}
PoseA == [f \in Fields |-> FieldIndex[f] + 10]

SendGoal ==
    \E timeout \in CartesianTimeouts, frame_id \in {BaseLink, AmigoBaseLink},
       pre_grasp \in BOOLEAN :
        send_goal(PoseA, timeout, pre_grasp, frame_id, FALSE, <<>>)

SendDeltaGoal ==
    \E timeout \in CartesianTimeouts, use_offset \in BOOLEAN :
        send_delta_goal(PoseA, timeout, FALSE, BaseLink, use_offset, FALSE)

SendJointGoal ==
    \E configuration \in ConfigurationNames : send_joint_goal("send_joint_goal", configuration)

SendJointTrajectory ==
    \E configuration \in ConfigurationNames : send_joint_trajectory(configuration)

Reset == reset

SendJointTrajectoryLowLevel ==
    \E timeout \in {Duration(0), Secs(0)} :
        _send_joint_trajectory("_send_joint_trajectory", <<timeout>>,
                               <<JointVector(NumJoints, 0)>>, timeout)

Close == \E failing \in Endpoints \cup {NoFailure} : close(failing)

(***************************************************************************)
(* The environment: the action servers and the diagnostics publisher.      *)
(***************************************************************************)
EnvStep(e, from, to) ==
    /\ ac[e] = from
    /\ ac' = [ac EXCEPT ![e] = to]
    /\ UNCHANGED <<_operational, _occupied_by, _ac_joint_traj_present, joint_server_up,
                   diag_msg, handover, pc, call, ret, sent, markers, log>>
    /\ UnchangedConfig

ServerAccepts == \E e \in Endpoints : EnvStep(e, "PENDING", "ACTIVE")
ServerRejects == \E e \in Endpoints : EnvStep(e, "PENDING", "REJECTED")
ServerSucceeds == \E e \in Endpoints : EnvStep(e, "ACTIVE", "SUCCEEDED")
ServerAborts == \E e \in Endpoints : EnvStep(e, "ACTIVE", "ABORTED")

\* The joint trajectory action server comes up or goes away.
JointServerChanges ==
    /\ joint_server_up' = ~joint_server_up
    /\ UNCHANGED <<_operational, _occupied_by, _ac_joint_traj_present, ac,
                   diag_msg, handover, pc, call, ret, sent, markers, log>>
    /\ UnchangedConfig

\* A DiagnosticArray arrives and the subscriber's callback runs on it.
SmallDiagnosticArrays ==
    {<<>>,
     <<[name |-> ArmDiagName("left"), level |-> OPERATIONAL_LEVEL]>>,
     <<[name |-> ArmDiagName("left"), level |-> MaxLevel]>>}

HardwareStatus ==
    \E msg \in SmallDiagnosticArrays :
        /\ cb_hardware_status(msg)
        /\ UNCHANGED <<joint_server_up, diag_msg, handover, pc, call, ret>>
        /\ UnchangedConfig

Next ==
    \/ SetOccupiedBy
    \/ SendGripperGoal
    \/ SendGripperGoalReturn
    \/ SendGoal
    \/ SendDeltaGoal
    \/ SendGoalAndWaitReturn
    \/ SendJointGoal
    \/ SendJointTrajectory
    \/ Reset
    \/ SendJointTrajectoryLowLevel
    \/ SendJointTrajectoryReturn
    \/ Close
    \/ JointServerChanges
    \/ ServerAccepts
    \/ ServerRejects
    \/ ServerSucceeds
    \/ ServerAborts
    \/ HardwareStatus

Spec == Init /\ [][Next]_vars

(***************************************************************************)
(* The whole Arm: the operations above together with the handovers.        *)
(***************************************************************************)
NextArm ==
    \/ Next
    \/ HandoverToHuman
    \/ HandoverToRobot
    \/ HandoverTick
    \/ ResultMessage
    \/ HandoverReturn

SpecArm == Init /\ [][NextArm]_vars

(***************************************************************************)
(* Properties of the main specification.                                   *)
(***************************************************************************)
GripperCall == call.op = "send_gripper_goal" /\ call.args[1] \in {"open", "close"}
GripperBlocking == GripperCall /\ IsNumber(call.args[2]) /\ call.args[2] # Secs(0)
CartesianCall == call.op \in {"send_goal", "send_delta_goal"}
JointCall == call.op \in {"send_joint_goal", "send_joint_trajectory", "reset",
                          "_send_joint_trajectory"}

\* C1: a send_gripper_goal with a nonzero timeout waits, and when its wait
\* ends it returns True exactly if the gripper goal's status is SUCCEEDED;
\* occupied_by is then None after a successful 'open' and is otherwise the
\* value it had when the call was made.
C1_GripperBlockingResult ==
    /\ [](GripperBlocking /\ pc = "returned" =>
            /\ ret \in {"True", "False"}
            /\ ret = "True" => ac["gripper"] = "SUCCEEDED"
            /\ _occupied_by = IF ret = "True" /\ call.args[1] = "open"
                              THEN None ELSE call.pre[1])
    /\ [](pc = "wait_gripper" => GripperBlocking /\ _occupied_by = call.pre[1])
    /\ [][pc = "wait_gripper" /\ pc' # "wait_gripper" =>
            /\ pc' = "returned"
            /\ ret' = "False" <=> ac["gripper"] # "SUCCEEDED"]_vars

C1_Witness ==
    /\ pc = "returned"
    /\ call.op = "send_gripper_goal"
    /\ call.args = <<"open", Secs(1)>>
    /\ call.pre[1] = "coke"
    /\ ret = "True"
    /\ _occupied_by = None

\* C2: send_gripper_goal with timeout 0 never waits: it hands one goal to
\* the gripper client and returns True; 'open' leaves occupied_by None,
\* 'close' leaves occupied_by as it was.
C2_GripperFireAndForget ==
    /\ pc = "wait_gripper" => call.args[2] # Secs(0)
    /\ GripperCall /\ call.args[2] = Secs(0) =>
        /\ pc = "returned"
        /\ ret = "True"
        /\ Len(sent) = 1
        /\ sent[1].ep = "gripper"
        /\ sent[1].goal.direction = IF call.args[1] = "open" THEN "OPEN" ELSE "CLOSE"
        /\ _occupied_by = IF call.args[1] = "open" THEN None ELSE call.pre[1]

C2_Witness ==
    /\ pc = "returned"
    /\ call.op = "send_gripper_goal"
    /\ call.args = <<"close", Secs(0)>>
    /\ call.pre[1] = "coke"
    /\ ret = "True"
    /\ _occupied_by = "coke"
    /\ ac["gripper"] = "ABORTED"

\* C3: when the wait of send_goal or send_delta_goal (nonzero timeout) ends,
\* the call returns True exactly if the grasp precompute goal is SUCCEEDED,
\* and False for every other terminal status and for an expired deadline.
C3_CartesianBlockingResult ==
    /\ [](CartesianCall /\ call.args[2] # Secs(0) /\ pc = "returned" =>
            /\ ret \in {"True", "False"}
            /\ ret = "True" <=> ac["grasp_precompute"] = "SUCCEEDED")
    /\ [](CartesianCall /\ call.args[2] # Secs(0) => pc \in {"wait_grasp", "returned"})
    /\ [][pc = "wait_grasp" /\ pc' # "wait_grasp" =>
            /\ pc' = "returned"
            /\ ret' = "True" <=> ac["grasp_precompute"] = "SUCCEEDED"
            /\ ret' = "False" <=> ac["grasp_precompute"] # "SUCCEEDED"]_vars

C3_Witness ==
    /\ pc = "returned"
    /\ call.op = "send_goal"
    /\ call.args[2] = Secs(1)
    /\ ret = "False"
    /\ ac["grasp_precompute"] = "REJECTED"

C5_JointTrueOnlyOnSuccess ==
    JointCall /\ pc = "returned" /\ ret = "True" => ac["joint_traj"] = "SUCCEEDED"

\* C7: after close() has returned no endpoint has a pending goal.
C7_CloseLeavesNothingPending ==
    call.op = "close" /\ pc = "returned" =>
        \A e \in Endpoints : ac[e] \notin {"PENDING", "ACTIVE"}

C7_Witness ==
    /\ pc = "returned"
    /\ call.op = "close"
    /\ call.pre[1]["gripper"] = "ACTIVE"
    /\ call.pre[1]["grasp_precompute"] = "SUCCEEDED"
    /\ call.pre[1]["joint_traj"] = "LOST"

\* The joints_references a joint-space call passes to _send_joint_trajectory.
ReferencesOfCall ==
    IF call.op \in {"send_joint_goal", "reset"}
    THEN <<default_configurations[call.args[1]]>>
    ELSE default_trajectories[call.args[1]]

MismatchedCall ==
    /\ \/ call.op \in {"send_joint_goal", "reset"} /\ call.args[1] \in DOMAIN default_configurations
       \/ call.op = "send_joint_trajectory" /\ call.args[1] \in DOMAIN default_trajectories
    /\ \E i \in DOMAIN ReferencesOfCall : Len(ReferencesOfCall[i]) # NumJoints

\* C10: a joint-space call with a waypoint of the wrong length, made while
\* the joint trajectory client is present, logs a warning and hands the
\* client one goal whose points are all the waypoints supplied, in order.
C10_MismatchStillSubmits ==
    MismatchedCall /\ _ac_joint_traj_present =>
        /\ pc \in {"wait_joint", "returned"}
        /\ Len(sent) = 1
        /\ sent[1].ep = "joint_traj"
        /\ Len(sent[1].goal.points) = Len(ReferencesOfCall)
        /\ \A i \in DOMAIN ReferencesOfCall :
               sent[1].goal.points[i].positions = ReferencesOfCall[i]
        /\ \E i \in DOMAIN log : log[i].level = "warn"

C10_Witness ==
    /\ pc = "returned"
    /\ call.op = "send_joint_trajectory"
    /\ call.args[1] = "long"
    /\ Len(sent) = 1
    /\ Len(sent[1].goal.points) = 2
    /\ Len(sent[1].goal.points[2].positions) = NumJoints + 1
    /\ ret = "True"

(***************************************************************************)
(* The hardware-status subscription on its own: DiagnosticArrays are       *)
(* published on /amigo/hardware_status and the callback runs on each.      *)
(***************************************************************************)
InitDiag == InitWith({Amigo}, Sides, {OffsetOf(1)}, {TRUE})

PublishDiagnostics ==
    \E msg \in DiagnosticArrays :
        /\ diag_msg = NoMsg \/ diag_msg[1] = "handled"
        /\ diag_msg' = <<"published", msg>>
        /\ UNCHANGED <<_operational, _occupied_by, _ac_joint_traj_present, joint_server_up,
                       ac, handover, pc, call, ret, sent, markers, log>>
        /\ UnchangedConfig

DeliverDiagnostics ==
    /\ diag_msg # NoMsg
    /\ diag_msg[1] = "published"
    /\ cb_hardware_status(diag_msg[2])
    /\ diag_msg' = <<"handled", diag_msg[2]>>
    /\ UNCHANGED <<joint_server_up, handover, pc, call, ret>>
    /\ UnchangedConfig

NextDiag == PublishDiagnostics \/ DeliverDiagnostics

SpecDiag == InitDiag /\ [][NextDiag]_vars

\* The sub-reports of msg named '<side>_arm'.
ArmReports(msg) == {i \in DOMAIN msg : msg[i].name = <<side, "_arm">>}

\* C6: when the callback has run on a report, operational is True if the
\* report has exactly one '<side>_arm' sub-report and its level is 2, False
\* if it has exactly one and its level is not 2, and the value it had before
\* the report if it has none or more than one.
C6_OperationalFollowsReport ==
    [][diag_msg # NoMsg /\ diag_msg[1] = "published" /\ diag_msg' # diag_msg =>
        LET msg == diag_msg[2]
            arm == ArmReports(msg)
        IN  /\ diag_msg' = <<"handled", msg>>
            /\ Cardinality(arm) = 1 =>
                 \A i \in arm : _operational' = (msg[i].level = 2)
            /\ Cardinality(arm) # 1 => _operational' = _operational]_vars

C6_Witness ==
    /\ side = "right"
    /\ diag_msg = <<"handled", <<[name |-> <<"left", "_arm">>, level |-> 2],
                                 [name |-> <<"right", "_arm">>, level |-> 3]>>>>
    /\ _operational = FALSE

(***************************************************************************)
(* send_goal over every pose and calibration offset of the bounds.         *)
(***************************************************************************)
InitGoal == InitWith({Amigo}, {"left"}, Offsets, {TRUE})

SendGoalAnyPose ==
    \E P \in Poses, timeout \in CartesianTimeouts :
        send_goal(P, timeout, TRUE, BaseLink, FALSE, <<"table">>)

NextGoal ==
    \/ SendGoalAnyPose
    \/ SendGoalAndWaitReturn
    \/ ServerAccepts
    \/ ServerRejects
    \/ ServerSucceeds
    \/ ServerAborts

SpecGoal == InitGoal /\ [][NextGoal]_vars

MarkersTagged(ns) == {i \in DOMAIN markers : markers[i].ns = ns}

\* C8: the goal send_goal hands to the grasp precompute client has each of
\* its six absolute fields equal to the requested pose plus the calibration
\* offset; the marker 'grasp_point' is at the requested position and the
\* marker 'grasp_point_corrected' at the requested position plus the offset.
C8_GoalIsPosePlusOffset ==
    call.op = "send_goal" =>
        LET P == call.args[1]
        IN  /\ Len(sent) = 1
            /\ sent[1].ep = "grasp_precompute"
            /\ \A f \in Fields : sent[1].goal.goal.pose[f] = P[f] + offset[f]
            /\ MarkersTagged("grasp_point") # {}
            /\ \A i \in MarkersTagged("grasp_point") :
                   <<markers[i].x, markers[i].y, markers[i].z>> = <<P["x"], P["y"], P["z"]>>
            /\ MarkersTagged("grasp_point_corrected") # {}
            /\ \A i \in MarkersTagged("grasp_point_corrected") :
                   <<markers[i].x, markers[i].y, markers[i].z>> =
                       <<P["x"] + offset["x"], P["y"] + offset["y"], P["z"] + offset["z"]>>

C8_Witness ==
    /\ call.op = "send_goal"
    /\ pc = "returned"
    /\ offset = OffsetOf(1)
    /\ call.args[1] = [f \in Fields |-> IF f = "pitch" THEN 1 ELSE 0]
    /\ sent[1].goal.goal.pose =
           [x |-> 1, y |-> 2, z |-> 3, roll |-> 4, pitch |-> 6, yaw |-> 6]
    /\ markers[1].ns = "grasp_point"
    /\ markers[1].z = 0
    /\ markers[2].ns = "grasp_point_corrected"
    /\ markers[2].z = 3

(***************************************************************************)
(* send_goal over every frame_id and robot name of the bounds.             *)
(***************************************************************************)
FrameChars == {"/", "a", "b"}
RobotNames == StringsOver({"a", "b"}, MaxNameLen) \ {<<>>}
FrameIds == StringsOver(FrameChars, MaxFrameLen)

InitFrame == InitWith(RobotNames, {"left"}, {OffsetOf(0)}, {TRUE})

SendGoalAnyFrame ==
    \E frame_id \in FrameIds : send_goal(PoseA, Secs(0), FALSE, frame_id, FALSE, <<>>)

NextFrame == SendGoalAnyFrame

SpecFrame == InitFrame /\ [][NextFrame]_vars

\* name occurs in s
Contains(s, name) ==
    \E i \in 1..Len(s) : \E j \in i..Len(s) : SubSeq(s, i, j) = name

\* C9: the frame_id of the goal send_goal submits is "/" + robot_name +
\* frame_id when the frame_id given does not contain the robot's name and
\* the frame_id given when it does; normalizing the submitted frame_id
\* again leaves it as it is.
C9_FramePrefixedOnce ==
    call.op = "send_goal" =>
        LET given == call.args[4]
            submitted == sent[1].goal.goal.frame_id
        IN  /\ ~Contains(given, robot_name) => submitted = <<"/">> \o robot_name \o given
            /\ Contains(given, robot_name) => submitted = given
            /\ Contains(submitted, robot_name)
            /\ NormalizeFrame(robot_name, submitted) = submitted

C9_Witness ==
    /\ call.op = "send_goal"
    /\ robot_name = <<"a", "b">>
    /\ call.args[4] = <<"/", "b", "a">>
    /\ sent[1].goal.goal.frame_id = <<"/", "a", "b", "/", "b", "a">>

(***************************************************************************)
(* Claims about the joint trajectory endpoint's availability.              *)
(***************************************************************************)
\* A joint-space call that reached _send_joint_trajectory; its pre is the
\* recorded availability and the server's reachability when it was made.
JointDispatched == JointCall /\ Len(call.pre) = 2

\* C11: a joint trajectory submission probes the server only when the
\* endpoint is recorded absent.  Recorded present, the goal is submitted
\* whatever the server's state; recorded absent and the probe fails, the call
\* returns False, hands no goal over and the endpoint stays absent; recorded
\* absent and the probe succeeds, the endpoint becomes present and the goal
\* is submitted.
C11_ProbeOnlyWhenAbsent ==
    JointDispatched =>
        IF call.pre[1] \/ call.pre[2]
        THEN /\ _ac_joint_traj_present
             /\ Len(sent) = 1
             /\ sent[1].ep = "joint_traj"
        ELSE /\ ~_ac_joint_traj_present
             /\ sent = <<>>
             /\ pc = "returned"
             /\ ret = "False"

C11_Witness ==
    /\ JointDispatched
    /\ call.op = "send_joint_goal"
    /\ call.pre = <<FALSE, TRUE>>
    /\ _ac_joint_traj_present
    /\ Len(sent) = 1
    /\ pc = "wait_joint"

(***************************************************************************)
(* The handovers on their own, for both arms.  The clock of a wait keeps   *)
(* running and a call that can return does return: weak fairness of        *)
(* HandoverTick and HandoverReturn.                                        *)
(***************************************************************************)
InitHandover == InitWith({Amigo}, Sides, {OffsetOf(1)}, {TRUE})

NextHandover ==
    \/ HandoverToHuman
    \/ HandoverToRobot
    \/ HandoverTick
    \/ ResultMessage
    \/ HandoverReturn
    \/ HardwareStatus
    \/ SetOccupiedBy

SpecHandover ==
    /\ InitHandover
    /\ [][NextHandover]_vars
    /\ WF_vars(HandoverTick)
    /\ WF_vars(HandoverReturn)

HandoverCall == call.op \in {"handover_to_human", "handover_to_robot"}
DirectionOfCall == IF call.op = "handover_to_human" THEN "robot2human" ELSE "human2robot"

\* C12: a handover publishes True once on its latched toggle topic and then
\* waits on the result topic.  It returns True exactly if a reply arrived
\* before the deadline; it returns False only with no reply and only once
\* the whole timeout has elapsed; and a call with a numeric timeout always
\* returns.
C12_HandoverAnswersOrExpires ==
    /\ [](HandoverCall =>
            /\ handover.pub = <<[topic |-> <<"/", "a", "/", "handoverdetector_", side, "/",
                                             "toggle_", DirectionOfCall>>,
                                 data |-> TRUE, latch |-> TRUE]>>
            /\ handover.sub = <<"/", "a", "/", "handoverdetector_", side, "/", "result">>
            /\ pc \in {"wait_handover", "returned"})
    /\ [](HandoverCall /\ pc = "returned" =>
            IF handover.msg # NoReply
            THEN ret = "True"
            ELSE /\ ret = "False"
                 /\ IsNumber(call.args[1])
                 /\ handover.elapsed = call.args[1][1])
    /\ [](HandoverCall /\ handover.msg # NoReply /\ IsNumber(call.args[1]) =>
            handover.elapsed < call.args[1][1])
    /\ (HandoverCall /\ pc = "wait_handover" /\ IsNumber(call.args[1])) ~> (pc = "returned")

C12_Witness ==
    /\ call.op = "handover_to_human"
    /\ call.args = <<Secs(MaxTimeout)>>
    /\ pc = "returned"
    /\ ret = "False"
    /\ handover.elapsed = MaxTimeout
    /\ handover.msg = NoReply

(***************************************************************************)
(* Claims about send_delta_goal, failure logs, close and exceptions.       *)
(***************************************************************************)
\* C13: send_delta_goal leaves the goal's absolute fields untouched and
\* writes the delta fields: the requested delta plus the calibration offset
\* when use_offset is true, the requested delta when it is false.
C13_DeltaOffsetFollowsFlag ==
    call.op = "send_delta_goal" =>
        LET P == call.args[1]
            use_offset == call.args[5]
            g == sent[1].goal
        IN  /\ g.goal.pose = ZeroPose
            /\ g.delta.pose = IF use_offset THEN [f \in Fields |-> P[f] + offset[f]] ELSE P

SendOps == {"send_goal", "send_delta_goal", "send_gripper_goal", "send_joint_goal",
            "send_joint_trajectory"}

\* C14: every send_goal, send_delta_goal, send_gripper_goal, send_joint_goal
\* or send_joint_trajectory call that returns False has written a warning or
\* error log entry that carries all the arguments the call was made with.
C14_FailureEchoesArguments ==
    call.op \in SendOps /\ pc = "returned" /\ ret = "False" =>
        \E i \in 1..Len(log) :
            /\ log[i].level \in {"warn", "err"}
            /\ log[i].args = call.args

\* C15: close never raises, and when cancelling fails on one endpoint the
\* goals on the other endpoints are cancelled all the same.
C15_CloseIsBestEffort ==
    call.op = "close" =>
        /\ pc = "returned"
        /\ \A e \in Endpoints \ {call.pre[2]} : ac[e] \notin ActiveStatuses

(***************************************************************************)
(* Claims about the operational flag and the diagnostics callback.         *)
(***************************************************************************)
\* The diagnostics callback can give _operational its other value in every
\* state, leaving the rest of the state as it is.
FlipOperational ==
    /\ HardwareStatus
    /\ _operational' = ~_operational
    /\ UNCHANGED <<_occupied_by, _ac_joint_traj_present, joint_server_up, ac, handover,
                   pc, call, ret, sent, markers, log>>

WaitStates == {"wait_gripper", "wait_grasp", "wait_joint", "wait_handover"}

\* What a blocking gripper, Cartesian or joint-space call returns when its
\* wait ends, from the status of its goal and occupied_by alone.
ResultFromStatusAlone ==
    pc \in WaitStates \ {"wait_handover"} /\ pc' # pc =>
        /\ pc' = "returned"
        /\ pc = "wait_gripper" =>
            /\ ret' = Bool(ac["gripper"] = "SUCCEEDED")
            /\ _occupied_by' = IF ret' = "True" /\ call.args[1] = "open"
                               THEN None ELSE _occupied_by
        /\ pc = "wait_grasp" =>
            /\ ret' = Bool(ac'["grasp_precompute"] = "SUCCEEDED")
            /\ UNCHANGED _occupied_by
        /\ pc = "wait_joint" =>
            /\ ret' = Bool(ac["joint_traj"] \in TerminalStatuses)
            /\ UNCHANGED _occupied_by

\* C16: dispatch does not look at the operational flag.  Every state is
\* reachable with either value of _operational, and in every reachable state
\* the goal handed over, the result and occupied_by of a send_gripper_goal,
\* send_goal, send_delta_goal or joint-space call are given by the call's
\* arguments, the endpoint's status and occupied_by alone; so two states
\* that differ in _operational only give the same goal, result and
\* occupancy, and a goal is submitted while _operational is False.
C16_DispatchIgnoresOperational ==
    /\ [](ENABLED FlipOperational)
    /\ [](GripperCall =>
            sent = <<[ep |-> "gripper",
                      goal |-> [direction |-> IF call.args[1] = "open"
                                              THEN "OPEN" ELSE "CLOSE"]]>>)
    /\ [](call.op = "send_goal" =>
            /\ Len(sent) = 1
            /\ sent[1].ep = "grasp_precompute"
            /\ sent[1].goal.goal.pose = [f \in Fields |-> call.args[1][f] + offset[f]])
    /\ [](call.op = "send_delta_goal" =>
            /\ Len(sent) = 1
            /\ sent[1].ep = "grasp_precompute"
            /\ sent[1].goal.delta.pose = call.args[1])
    /\ [](JointDispatched /\ (call.pre[1] \/ call.pre[2]) =>
            /\ Len(sent) = 1
            /\ sent[1].ep = "joint_traj")
    /\ [](pc = "returned" /\ (GripperCall \/ CartesianCall)
            /\ call.args[2] \in {Secs(0), TimeoutNone} => ret = "True")
    /\ [][ResultFromStatusAlone]_vars

C16_Witness ==
    /\ ~_operational
    /\ pc = "wait_gripper"
    /\ call.args[1] = "open"
    /\ _occupied_by = "coke"
    /\ sent = <<[ep |-> "gripper", goal |-> [direction |-> "OPEN"]]>>
    /\ ENABLED (SendGripperGoalReturn /\ ret' = "True" /\ _occupied_by' = None
                /\ ~_operational')
    /\ ENABLED (FlipOperational /\ pc' = "wait_gripper")

\* C17: the operations of a constructed Arm do not raise: a send_goal,
\* send_delta_goal, send_gripper_goal, send_joint_goal, send_joint_trajectory,
\* _send_joint_trajectory (whatever its timeout), handover_to_human or
\* handover_to_robot call that has ended has returned True or False.
C17_FailuresAreFalse ==
    (call.op \in SendOps \cup {"_send_joint_trajectory", "handover_to_human",
                               "handover_to_robot"}
     /\ pc \notin WaitStates) =>
        /\ pc = "returned"
        /\ ret \in {"True", "False"}

(***************************************************************************)
(* Claims about occupied_by, the callback during a wait, and retries.      *)
(***************************************************************************)
\* A step that changes occupied_by is the setter, or the end of a
\* send_gripper_goal('open') that returns True and leaves it None.
OccupancyChangesOnlyBySetterOrOpen ==
    _occupied_by' # _occupied_by =>
        \/ pc' = "idle" /\ call' = NoCall
        \/ /\ call'.op = "send_gripper_goal"
           /\ call'.args[1] = "open"
           /\ pc' = "returned"
           /\ ret' = "True"
           /\ _occupied_by' = None

\* C18: occupied_by is changed by its setter and by gripper-open commands
\* only.  It is None whenever a send_gripper_goal('open') has completed with
\* True, fire-and-forget calls included, and no step of any other operation,
\* of the callback or of the environment changes it.
C18_OccupancyFrame ==
    /\ [][OccupancyChangesOnlyBySetterOrOpen]_vars
    /\ [](call.op = "send_gripper_goal" /\ call.args[1] = "open"
          /\ pc = "returned" /\ ret = "True" => _occupied_by = None)

C18_Witness ==
    /\ call.op = "send_gripper_goal"
    /\ call.args = <<"open", TimeoutNone>>
    /\ call.pre = <<"coke">>
    /\ pc = "returned"
    /\ ret = "True"
    /\ _occupied_by = None

\* The end of whichever blocking call is in progress.
BlockedCallReturns ==
    \/ SendGripperGoalReturn
    \/ SendGoalAndWaitReturn
    \/ SendJointTrajectoryReturn
    \/ HandoverReturn

\* A step that changes _operational changes nothing else, and the blocked
\* call returns the same boolean after it as it would have before.
CallbackWritesOperationalOnly ==
    _operational' # _operational =>
        /\ UNCHANGED <<_occupied_by, _ac_joint_traj_present, joint_server_up, ac, handover,
                       pc, call, ret, sent, markers, log>>
        /\ \A r \in {"True", "False"} :
               (ENABLED (BlockedCallReturns /\ ret' = r))
                   <=> (ENABLED (BlockedCallReturns /\ ret' = r))'

\* C19: while a send_gripper_goal, send_goal, send_delta_goal, joint-space
\* call or handover is blocked, the diagnostics callback can still run; a
\* step of it writes _operational only, and changes neither occupied_by, nor
\* the recorded availability of the joint trajectory endpoint, nor the goals
\* in flight, nor the boolean the blocked call returns.
C19_CallbackDuringBlockedCall ==
    /\ [](pc \in WaitStates => ENABLED FlipOperational)
    /\ [][CallbackWritesOperationalOnly]_vars

C19_Witness ==
    /\ pc = "wait_handover"
    /\ _operational
    /\ handover.msg = "robot2human"
    /\ ENABLED (FlipOperational /\ (ENABLED (HandoverReturn /\ ret' = "True"))')

EndpointOfCall ==
    IF call.op = "send_gripper_goal" THEN "gripper"
    ELSE IF call.op \in {"send_goal", "send_delta_goal"} THEN "grasp_precompute"
    ELSE "joint_traj"

\* Nothing more is handed over while a call is in progress or when it
\* returns, and a goal becomes pending only as its call is made, on the
\* endpoint of that call.
NoGoalAfterTheFirst ==
    /\ ~Free => sent' = sent
    /\ \A e \in Endpoints :
           ac'[e] = "PENDING" /\ ac[e] # "PENDING" =>
               /\ Free
               /\ Len(sent') = 1
               /\ sent'[1].ep = e

\* C20: a send_goal, send_delta_goal, send_gripper_goal, send_joint_goal or
\* send_joint_trajectory call hands over at most one goal, to the one
\* endpoint of that operation, and none to the other two; a goal that fails
\* or misses its deadline is not sent again.
C20_NoRetry ==
    /\ [](call.op \in SendOps =>
            /\ Len(sent) <= 1
            /\ \A i \in 1..Len(sent) : sent[i].ep = EndpointOfCall)
    /\ [][NoGoalAfterTheFirst]_vars

C20_Witness ==
    /\ call.op = "send_goal"
    /\ call.args[2] = Secs(MaxTimeout)
    /\ pc = "returned"
    /\ ret = "False"
    /\ Len(sent) = 1
    /\ ac = [gripper |-> "LOST", grasp_precompute |-> "PREEMPTED", joint_traj |-> "LOST"]

(***************************************************************************)
(* Claims about the handover channels.                                     *)
(***************************************************************************)
OtherDirection == IF DirectionOfCall = "robot2human" THEN "human2robot" ELSE "robot2human"

\* C21: the two handover directions use disjoint channels: a handover
\* neither publishes to nor waits on a channel that the handover of the
\* other direction publishes to or waits on, and the reply that ends a wait
\* was produced for the direction of the waiting call.
C21_HandoverChannelsDisjoint ==
    HandoverCall =>
        /\ {handover.pub[1].topic, handover.sub}
               \cap {ToggleTopic(robot_name, side, OtherDirection),
                     WaitTopic(robot_name, side, OtherDirection)} = {}
        /\ handover.msg # NoReply => handover.msg = DirectionOfCall

\* C21 as the code has it: the two directions publish their toggle on
\* different topics and wait on the same result topic of the arm's side, so
\* a waiting handover receives the reply for either direction and returns
\* True on it.
C21_TogglesDisjointResultShared ==
    /\ [](HandoverCall =>
            /\ handover.pub[1].topic[7] = "toggle_"
            /\ handover.pub[1].topic[8] = DirectionOfCall
            /\ handover.pub[1].topic # ToggleTopic(robot_name, side, OtherDirection)
            /\ handover.sub = <<"/", "a", "/", "handoverdetector_", side, "/", "result">>)
    /\ [](HandoverCall /\ pc = "wait_handover" /\ handover.msg = NoReply
          /\ ~HandoverExpired(call.args[1], handover.elapsed) =>
            \A d \in Directions : ENABLED (ResultMessage /\ handover'.msg = d))
    /\ [](HandoverCall /\ pc = "wait_handover" /\ handover.msg # NoReply =>
            ENABLED (HandoverReturn /\ ret' = "True"))

C21_Witness ==
    /\ call.op = "handover_to_robot"
    /\ pc = "returned"
    /\ ret = "True"
    /\ handover.msg = "robot2human"
    /\ handover.sub = <<"/", "a", "/", "handoverdetector_", side, "/", "result">>

(***************************************************************************)
(* Claims about requests the arm does not recognise.                       *)
(***************************************************************************)
\* The call in progress or just ended asked for a gripper state, a
\* configuration or a trajectory that does not exist.
UnrecognisedCall ==
    \/ call.op = "send_gripper_goal" /\ call.args[1] \notin {"open", "close"}
    \/ call.op = "send_joint_goal" /\ call.args[1] \notin {"reset", "short"}
    \/ call.op = "send_joint_trajectory" /\ call.args[1] \notin {"prepare", "long", "empty"}

\* The step in which an unrecognised call is made changes neither
\* occupied_by, nor _operational, nor any goal of any endpoint.
UnrecognisedCallTouchesNothing ==
    UnrecognisedCall' /\ <<pc, call, ret, sent, markers, log>>' # <<pc, call, ret, sent, markers, log>>
        => UNCHANGED <<_occupied_by, _operational, ac, _ac_joint_traj_present>>

\* C22: send_gripper_goal with a state other than 'open' and 'close',
\* send_joint_goal with a name that is no default configuration and
\* send_joint_trajectory with a name that is no default trajectory return
\* False at once, hand no goal to any endpoint and leave occupied_by,
\* _operational and the endpoints' goals as they were.
C22_UnrecognisedRejected ==
    /\ [](UnrecognisedCall =>
            /\ pc = "returned"
            /\ ret = "False"
            /\ sent = <<>>
            /\ call.op = "send_gripper_goal" => _occupied_by = call.pre[1])
    /\ [][UnrecognisedCallTouchesNothing]_vars

C22_Witness ==
    /\ call.op = "send_gripper_goal"
    /\ call.args[1] = "half"
    /\ call.pre = <<"coke">>
    /\ pc = "returned"
    /\ ret = "False"
    /\ sent = <<>>
    /\ _occupied_by = "coke"
    /\ ~_operational
    /\ ac["gripper"] = "ACTIVE"

(***************************************************************************)
(* Head: look_at_point and the helpers built on it, cancel_goal, close,    *)
(* and the callbacks of the head reference action client.                  *)
(* actionlib's SimpleActionClient calls feedback_cb and done_cb for the    *)
(* goal it tracks only; a goal replaced by send_goal is no longer tracked. *)
(* head.fresh records that the value of _at_setpoint was written by        *)
(* feedback for the goal sent last.  Lengths are in tenths.                *)
(***************************************************************************)
UnchangedArm ==
    UNCHANGED <<robot_name, side, offset, _operational, _occupied_by,
                _ac_joint_traj_present, joint_server_up, ac, diag_msg,
                handover, pc, call, ret, sent, markers, log>>

HeadFree == head.pc \in {"idle", "returned"}
HeadTimeouts == 0..MaxTimeout
\* distances in front of the robot, in metres
MaxDistance == 3

\* frame_id "/"+self._robot_name+"/base_link" and a point
HeadPointStamped(name, x, y, z) ==
    [frame_id |-> <<"/">> \o name \o <<"/", "base_link">>, x |-> x, y |-> y, z |-> z]

HeadReferenceGoal(goal_type, pan_vel, tilt_vel, end_time, point_stamped, pan, tilt) ==
    [goal_type |-> goal_type, priority |-> 0, pan_vel |-> pan_vel, tilt_vel |-> tilt_vel,
     target_point |-> point_stamped, pan |-> pan, tilt |-> tilt, end_time |-> end_time]

\* self._goal is built and sent with the two callbacks; _at_setpoint is not
\* assigned.  With a nonzero timeout the caller then polls _at_setpoint.
_setHeadReferenceGoal(goal_type, pan_vel, tilt_vel, end_time, point_stamped, pan, tilt, timeout) ==
    /\ HeadFree
    /\ head' = [head EXCEPT
                    !._goal = HeadReferenceGoal(goal_type, pan_vel, tilt_vel, end_time,
                                                point_stamped, pan, tilt),
                    !.tracked = "active",
                    !.fresh = FALSE,
                    !.timeout = timeout,
                    !.elapsed = 0,
                    !.pc = IF timeout # 0 THEN "wait" ELSE "returned"]
    /\ UnchangedArm

look_at_point(point_stamped, timeout) ==
    _setHeadReferenceGoal(0, 2, 2, 0, point_stamped, 0, 0, timeout)

\* Head.reset(timeout) passes its timeout on.
HeadReset ==
    \E timeout \in HeadTimeouts :
        look_at_point(HeadPointStamped(robot_name, 100, 0, 0), timeout)

\* Head.look_down(timeout) and Head.look_up(timeout) call look_at_point
\* without their timeout.
HeadLookDown ==
    \E timeout \in HeadTimeouts :
        look_at_point(HeadPointStamped(robot_name, 10, 0, 5), 0)

HeadLookUp ==
    \E timeout \in HeadTimeouts :
        look_at_point(HeadPointStamped(robot_name, 2, 0, 45), 0)

\* Head.look_at_standing_person(timeout), likewise without its timeout.
HeadLookAtStandingPerson ==
    \E timeout \in HeadTimeouts :
        look_at_point(HeadPointStamped(robot_name, 10, 0, 16), 0)

\* Head.look_at_ground_in_front_of_robot(distance), distance in metres
look_at_ground_in_front_of_robot(distance) ==
    look_at_point(HeadPointStamped(robot_name, 10 * distance, 0, 0), 0)

HeadLookAtGround ==
    \E distance \in 1..MaxDistance : look_at_ground_in_front_of_robot(distance)

\* Head.look_at_hand(side): the grippoint frame of that side, no timeout;
\* any other side is refused and nothing is sent.
look_at_hand(s) ==
    IF s \in {"left", "right"}
    THEN look_at_point([frame_id |-> <<"/">> \o robot_name \o <<"/", "grippoint_", s>>,
                        x |-> 0, y |-> 0, z |-> 0], 0)
    ELSE /\ HeadFree
         /\ head' = [head EXCEPT !.pc = "returned"]
         /\ UnchangedArm

HeadLookAtHand == \E s \in Sides \cup {"middle"} : look_at_hand(s)

\* Head.look_at_point called directly, with a timeout.
HeadLookAtPoint ==
    \E s \in Sides, timeout \in HeadTimeouts :
        look_at_point([frame_id |-> <<"/">> \o robot_name \o <<"/", "grippoint_", s>>,
                       x |-> 0, y |-> 0, z |-> 0], timeout)

\* while (now - start) < Duration(timeout) and not self._at_setpoint: sleep
HeadKeepsWaiting(h) == h.elapsed < h.timeout /\ ~h._at_setpoint

HeadTick ==
    /\ head.pc = "wait"
    /\ HeadKeepsWaiting(head)
    /\ head' = [head EXCEPT !.elapsed = @ + 1]
    /\ UnchangedArm

HeadWaitEnds ==
    /\ head.pc = "wait"
    /\ ~HeadKeepsWaiting(head)
    /\ head' = [head EXCEPT !.pc = "returned"]
    /\ UnchangedArm

\* Head.__feedbackCallback, on feedback for the tracked goal
feedbackCallback(at_setpoint) ==
    /\ head.tracked = "active"
    /\ head' = [head EXCEPT !._at_setpoint = at_setpoint, !.fresh = at_setpoint]
    /\ UnchangedArm

HeadFeedback == \E at_setpoint \in BOOLEAN : feedbackCallback(at_setpoint)

\* Head.__doneCallback, when the tracked goal reaches a terminal state
doneCallback ==
    /\ head.tracked = "active"
    /\ head' = [head EXCEPT !.tracked = "done", !._goal = None,
                            !._at_setpoint = FALSE, !.fresh = FALSE]
    /\ UnchangedArm

\* Head.cancel_goal
cancel_goal ==
    /\ HeadFree
    /\ head' = [head EXCEPT !.tracked = IF @ = "active" THEN "done" ELSE @,
                            !._goal = None, !._at_setpoint = FALSE, !.fresh = FALSE,
                            !.pc = "returned"]
    /\ UnchangedArm

\* Head.close: cancel_all_goals, and nothing else
HeadClose ==
    /\ HeadFree
    /\ head' = [head EXCEPT !.tracked = IF @ = "active" THEN "done" ELSE @,
                            !.pc = "returned"]
    /\ UnchangedArm

InitHead == InitWith({Amigo}, {"left"}, {OffsetOf(1)}, {TRUE})

NextHead ==
    \/ HeadReset
    \/ HeadLookDown
    \/ HeadLookUp
    \/ HeadLookAtStandingPerson
    \/ HeadLookAtHand
    \/ HeadLookAtGround
    \/ HeadLookAtPoint
    \/ HeadTick
    \/ HeadWaitEnds
    \/ HeadFeedback
    \/ doneCallback
    \/ cancel_goal
    \/ HeadClose

SpecHead == InitHead /\ [][NextHead]_vars

\* The wait of a goal ends before its deadline.
HeadWaitEndsEarly ==
    /\ head.pc = "wait"
    /\ head'.pc = "returned"
    /\ head.elapsed < head.timeout

\* C23: the wait of a Head goal sent with a nonzero timeout ends before its
\* deadline only when feedback for that goal has reported at_setpoint; a
\* True left in _at_setpoint by feedback for an earlier goal does not end it.
C23_WaitEndsEarlyOnlyOnOwnFeedback ==
    [][HeadWaitEndsEarly => head.fresh]_vars

====
